---- MODULE Spec2Model ----
(***************************************************************************)
(* Model of cosmic-ext-radio-applet's two core mechanisms:                 *)
(*   - AudioManager (src/audio.rs): a mutex-guarded Option<Child> slot     *)
(*     holding the mpv player process, with play / stop / Drop;            *)
(*   - search_stations (src/api.rs): sequential fallback over the fixed    *)
(*     API_SERVERS list with last-error retention.                         *)
(* Strings that the code inspects (URLs, queries) are sequences of         *)
(* one-character strings so that trim / starts_with / parsing are computed.*)
(***************************************************************************)
EXTENDS Integers, Sequences, FiniteSets, TLC

VARIABLES
    callers,    \* threads that share a reference to the AudioManager
    manager,    \* "live" | "dropping" | "dropped": lifetime of the AudioManager
    slot,       \* AudioManager.process: 0 for None, else the pid of Some(child)
    lock,       \* holder of the Mutex around the slot, 0 when free
    procs,      \* every mpv process ever spawned, indexed by pid; status is
                \* "running", "exited" (ended by itself), "killed" or "reaped"
    pc,         \* per thread: position inside play / stop
    op,         \* per thread: the call in progress, "none" between calls
    url,        \* per thread: index in UrlTable of play's url argument
    vol,        \* per thread: play's volume argument
    child,      \* per thread: the Child taken out of the slot by stop
    spawned,    \* per thread: pid returned by spawn() in play, 0 if none
    logged,     \* per thread: error!/warn! records emitted by the call so far
    returned,   \* the most recently completed call and what it handed back
    spc,        \* search_stations: position
    query,      \* search_stations: index in QueryTable of the query argument
    server,     \* search_stations: index in API_SERVERS of the loop
    last_error, \* search_stations: Option<Error>
    attempts,   \* search_stations: the requests sent so far, with their outcome
    result,     \* search_stations: the returned Result
    raw,        \* one station record as it arrives on the wire
    station     \* Option<Station>: the Station made of raw, None before

audioVars == <<callers, manager, slot, lock, procs, pc, op, url, vol, child,
               spawned, logged, returned>>
searchVars == <<spc, query, server, last_error, attempts, result>>
normVars == <<raw, station>>
vars == <<callers, manager, slot, lock, procs, pc, op, url, vol, child,
          spawned, logged, returned, spc, query, server, last_error, attempts, result,
          raw, station>>

----------------------------------------------------------------------------
(* Bounds *)

NumThreads == 2
MaxProcs == 2

Threads == 1..NumThreads

----------------------------------------------------------------------------
(* Character-level strings *)

UpperToLower ==
    [c \in {"A","C","H","L","O","P","S","T"} |->
        CASE c = "A" -> "a" [] c = "C" -> "c" [] c = "H" -> "h"
          [] c = "L" -> "l" [] c = "O" -> "o" [] c = "P" -> "p"
          [] c = "S" -> "s" [] c = "T" -> "t"]

ToLower(c) == IF c \in DOMAIN UpperToLower THEN UpperToLower[c] ELSE c

LowerStr(s) == [i \in 1..Len(s) |-> ToLower(s[i])]

StartsWith(s, p) == Len(s) >= Len(p) /\ SubSeq(s, 1, Len(p)) = p

\* index of the first occurrence of character c in s at or after i, 0 if none
RECURSIVE Find(_, _, _)
Find(s, c, i) ==
    IF i > Len(s) THEN 0
    ELSE IF s[i] = c THEN i
    ELSE Find(s, c, i + 1)

Letters == {"a","b","c","d","e","f","g","h","i","j","k","l","m","n","o","p",
            "q","r","s","t","u","v","w","x","y","z"}

s_http == <<"h","t","t","p">>
s_https == <<"h","t","t","p","s">>
s_localhost == <<"l","o","c","a","l","h","o","s","t">>
s_127_0_0_1 == <<"1","2","7",".","0",".","0",".","1">>
s_192_168_ == <<"1","9","2",".","1","6","8",".">>
s_10_ == <<"1","0",".">>
s_172_16_ == <<"1","7","2",".","1","6",".">>

\* Option<T>: None is the empty sequence, Some(x) is <<x>>
None == <<>>
Some(x) == <<x>>

ParseErr == [ok |-> FALSE]
ParseOk(scheme, host) == [ok |-> TRUE, scheme |-> scheme, host |-> host]

\* Url::parse, reduced to what validate_url reads from it: the scheme and
\* host_str(), both ASCII-lowercased by the parser.  A string without a
\* "scheme:" prefix is a relative URL without a base and fails to parse, as
\* does an http(s) URL with an empty host.
UrlParse(u) ==
    LET colon == Find(u, ":", 1)
        scheme == LowerStr(SubSeq(u, 1, colon - 1))
        rest == SubSeq(u, colon + 1, Len(u))
        auth == SubSeq(rest, 3, Len(rest))
        slash == Find(auth, "/", 1)
        hostRaw == IF slash = 0 THEN auth ELSE SubSeq(auth, 1, slash - 1)
    IN  IF colon <= 1 \/ u[1] \notin (Letters \cup DOMAIN UpperToLower) THEN ParseErr
        ELSE IF StartsWith(rest, <<"/","/">>)
             THEN IF hostRaw = <<>>
                  THEN (IF scheme \in {s_http, s_https} THEN ParseErr
                        ELSE ParseOk(scheme, None))
                  ELSE ParseOk(scheme, Some(LowerStr(hostRaw)))
             ELSE IF scheme \in {s_http, s_https} THEN ParseErr
             ELSE ParseOk(scheme, None)

ValidOk == "Ok"
ErrPrivate == "Local/private URLs not allowed"
ErrScheme == "Only http/https URLs are allowed"
ErrFormat == "Invalid URL format"

\* the blocklist with the "10." prefix forgotten
HostBlocked_No10(host) ==
    \/ host = s_localhost
    \/ host = s_127_0_0_1
    \/ StartsWith(host, s_192_168_)
    \/ StartsWith(host, s_172_16_)

HostBlocked(host) ==
    \/ host = s_localhost
    \/ host = s_127_0_0_1
    \/ StartsWith(host, s_192_168_)
    \/ StartsWith(host, s_10_)
    \/ StartsWith(host, s_172_16_)

\* validate_url without the scheme test: any parsed URL with a public host passes
validate_url_AnyScheme(u) ==
    LET parsed == UrlParse(u)
    IN  IF ~parsed.ok THEN ValidOk
        ELSE IF parsed.host # None /\ HostBlocked(parsed.host[1])
             THEN ErrPrivate
             ELSE ValidOk

validate_url(u) ==
    LET parsed == UrlParse(u)
    IN  IF ~parsed.ok THEN ErrFormat
        ELSE IF parsed.scheme = s_http \/ parsed.scheme = s_https
             THEN IF parsed.host # None /\ HostBlocked(parsed.host[1])
                  THEN ErrPrivate
                  ELSE ValidOk
             ELSE ErrScheme

----------------------------------------------------------------------------
(* Inputs of play *)

s_sep == <<":","/","/">>
s_a_fm == <<"a",".","f","m">>

UrlTable == <<
    s_http \o s_sep \o s_a_fm \o <<"/","s">>,                               \* http://a.fm/s
    <<"H","T","T","P">> \o s_sep \o <<"1","0","0",".","1",".","1",".","1">>, \* HTTP://100.1.1.1
    <<"r","a","d","i","o">>,                                                \* radio
    s_http \o s_sep,                                                        \* http://
    <<"f","t","p">> \o s_sep \o s_a_fm,                                     \* ftp://a.fm
    <<"f","i","l","e">> \o s_sep \o <<"/","s">>,                            \* file:///s
    s_http \o s_sep \o s_localhost \o <<"/">>,                              \* http://localhost/
    s_https \o s_sep \o s_127_0_0_1,                                        \* https://127.0.0.1
    s_http \o s_sep \o s_192_168_ \o <<"1",".","5">>,                       \* http://192.168.1.5
    s_http \o s_sep \o s_10_ \o <<"0",".","0",".","1">> \o <<"/","s">>,     \* http://10.0.0.1/s
    s_https \o s_sep \o s_172_16_ \o <<"0",".","1">>,                       \* https://172.16.0.1
    s_http \o s_sep \o <<"L","O","C","A","L","H","O","S","T">>,             \* http://LOCALHOST
    s_http \o s_sep \o s_10_ \o s_a_fm                                      \* http://10.a.fm
>>

UrlIds == 1..Len(UrlTable)

\* volume: u8
Volumes == {100}

----------------------------------------------------------------------------
(* Log records and return values *)

LogInvalidUrl(e) == [level |-> "error", msg |-> "Invalid stream URL", detail |-> e]
LogSpawnFailed == [level |-> "error", msg |-> "Failed to start mpv", detail |-> "io"]
LogKillFailed == [level |-> "warn", msg |-> "Failed to kill mpv process", detail |-> "io"]

\* play, stop and drop all return ()
Unit == "()"

\* the record of a completed call: what it was, what it logged, the pid it
\* spawned (0 if none) and the value it handed back
Returned(o, u, l, s) ==
    [op |-> o, url |-> u, logged |-> l, spawned |-> s, value |-> Unit]

----------------------------------------------------------------------------
(* AudioManager *)

\* AudioManager::new
InitAudio ==
    /\ manager = "live"
    /\ slot = 0
    /\ lock = 0
    /\ procs = <<>>
    /\ pc = [t \in Threads |-> "idle"]
    /\ op = [t \in Threads |-> "none"]
    /\ url = [t \in Threads |-> 0]
    /\ vol = [t \in Threads |-> 0]
    /\ child = [t \in Threads |-> 0]
    /\ spawned = [t \in Threads |-> 0]
    /\ logged = [t \in Threads |-> {}]
    /\ returned = Returned("none", 0, {}, 0)

Running(p) == procs[p].status = "running"
Pids == 1..Len(procs)
LivePids == {p \in Pids : Running(p)}

\* calls that have passed validation and have not reached spawn() yet
PendingSpawns == {t \in Threads : op[t] = "play" /\ pc[t] # "play_store"}

\* the call of thread t is over: its locals go out of scope
Return(t) ==
    /\ pc' = [pc EXCEPT ![t] = "idle"]
    /\ op' = [op EXCEPT ![t] = "none"]
    /\ url' = [url EXCEPT ![t] = 0]
    /\ vol' = [vol EXCEPT ![t] = 0]
    /\ child' = [child EXCEPT ![t] = 0]
    /\ spawned' = [spawned EXCEPT ![t] = 0]
    /\ logged' = [logged EXCEPT ![t] = {}]
    /\ manager' = IF op[t] = "drop" THEN "dropped" ELSE manager

\* play without the call of self.stop(): validated, it goes straight to spawn()
Play_NoStop(t, u, v) ==
    /\ manager = "live"
    /\ t \in callers
    /\ pc[t] = "idle"
    /\ Len(procs) + Cardinality(PendingSpawns) < MaxProcs
    /\ LET e == validate_url(UrlTable[u])
       IN  IF e # ValidOk
           THEN /\ returned' = Returned("play", u, {LogInvalidUrl(e)}, 0)
                /\ UNCHANGED <<pc, op, url, vol>>
           ELSE /\ op' = [op EXCEPT ![t] = "play"]
                /\ url' = [url EXCEPT ![t] = u]
                /\ vol' = [vol EXCEPT ![t] = v]
                /\ pc' = [pc EXCEPT ![t] = "play_spawn"]
                /\ UNCHANGED returned
    /\ UNCHANGED <<callers, manager, slot, lock, procs, child, spawned, logged>>
    /\ UNCHANGED searchVars
    /\ UNCHANGED normVars

\* play emptying the slot when validation fails
Play_InvalidDropsHandle(t, u, v) ==
    /\ manager = "live"
    /\ t \in callers
    /\ pc[t] = "idle"
    /\ Len(procs) + Cardinality(PendingSpawns) < MaxProcs
    /\ LET e == validate_url(UrlTable[u])
       IN  IF e # ValidOk
           THEN /\ returned' = Returned("play", u, {LogInvalidUrl(e)}, 0)
                /\ slot' = 0
                /\ UNCHANGED <<pc, op, url, vol>>
           ELSE /\ op' = [op EXCEPT ![t] = "play"]
                /\ url' = [url EXCEPT ![t] = u]
                /\ vol' = [vol EXCEPT ![t] = v]
                /\ pc' = [pc EXCEPT ![t] = "stop_lock"]
                /\ UNCHANGED <<returned, slot>>
    /\ UNCHANGED <<callers, manager, lock, procs, child, spawned, logged>>
    /\ UNCHANGED searchVars
    /\ UNCHANGED normVars

\* play, lines 43-50: validate, log and return on Err, else go on to self.stop()
Play(t, u, v) ==
    /\ manager = "live"
    /\ t \in callers
    /\ pc[t] = "idle"
    /\ Len(procs) + Cardinality(PendingSpawns) < MaxProcs
    /\ LET e == validate_url(UrlTable[u])
       IN  IF e # ValidOk
           THEN /\ returned' = Returned("play", u, {LogInvalidUrl(e)}, 0)
                /\ UNCHANGED <<pc, op, url, vol>>
           ELSE /\ op' = [op EXCEPT ![t] = "play"]
                /\ url' = [url EXCEPT ![t] = u]
                /\ vol' = [vol EXCEPT ![t] = v]
                /\ pc' = [pc EXCEPT ![t] = "stop_lock"]
                /\ UNCHANGED returned
    /\ UNCHANGED <<callers, manager, slot, lock, procs, child, spawned, logged>>
    /\ UNCHANGED searchVars
    /\ UNCHANGED normVars

\* a direct call of stop()
Stop(t) ==
    /\ manager = "live"
    /\ t \in callers
    /\ pc[t] = "idle"
    /\ op' = [op EXCEPT ![t] = "stop"]
    /\ pc' = [pc EXCEPT ![t] = "stop_lock"]
    /\ UNCHANGED <<callers, manager, slot, lock, procs, url, vol, child, spawned,
                   logged, returned>>
    /\ UNCHANGED searchVars
    /\ UNCHANGED normVars

\* Drop: needs exclusive access, so no call is in progress on any thread
Drop(t) ==
    /\ manager = "live"
    /\ t \in callers
    /\ \A s \in Threads : pc[s] = "idle"
    /\ manager' = "dropping"
    /\ op' = [op EXCEPT ![t] = "drop"]
    /\ pc' = [pc EXCEPT ![t] = "stop_lock"]
    /\ UNCHANGED <<callers, slot, lock, procs, url, vol, child, spawned, logged,
                   returned>>
    /\ UNCHANGED searchVars
    /\ UNCHANGED normVars

\* where stop() returns to: play goes on to spawn, stop and drop are over
AfterStop(t) ==
    IF op[t] = "play"
    THEN /\ pc' = [pc EXCEPT ![t] = "play_spawn"]
         /\ child' = [child EXCEPT ![t] = 0]
         /\ UNCHANGED <<op, url, vol, spawned, logged, manager, returned>>
    ELSE /\ Return(t)
         /\ returned' = Returned(op[t], 0, logged[t], 0)

\* stop returning from an empty slot without releasing the lock
StopLock_KeepsLock(t) ==
    /\ pc[t] = "stop_lock"
    /\ lock = 0
    /\ IF slot = 0
       THEN /\ AfterStop(t)
            /\ lock' = t
            /\ UNCHANGED slot
       ELSE /\ child' = [child EXCEPT ![t] = slot]
            /\ slot' = 0
            /\ lock' = t
            /\ pc' = [pc EXCEPT ![t] = "stop_kill"]
            /\ UNCHANGED <<op, url, vol, spawned, logged, manager, returned>>
    /\ UNCHANGED <<callers, procs>>
    /\ UNCHANGED searchVars
    /\ UNCHANGED normVars

\* stop reading the slot without take(): the handle stays in the slot
StopLock_NoTake(t) ==
    /\ pc[t] = "stop_lock"
    /\ lock = 0
    /\ IF slot = 0
       THEN /\ AfterStop(t)
            /\ UNCHANGED <<slot, lock>>
       ELSE /\ child' = [child EXCEPT ![t] = slot]
            /\ slot' = slot
            /\ lock' = t
            /\ pc' = [pc EXCEPT ![t] = "stop_kill"]
            /\ UNCHANGED <<op, url, vol, spawned, logged, manager, returned>>
    /\ UNCHANGED <<callers, procs>>
    /\ UNCHANGED searchVars
    /\ UNCHANGED normVars

\* stop, lines 75-76: lock, then guard.take(); an empty slot ends stop
StopLock(t) ==
    /\ pc[t] = "stop_lock"
    /\ lock = 0
    /\ IF slot = 0
       THEN /\ AfterStop(t)
            /\ UNCHANGED <<slot, lock>>
       ELSE /\ child' = [child EXCEPT ![t] = slot]
            /\ slot' = 0
            /\ lock' = t
            /\ pc' = [pc EXCEPT ![t] = "stop_kill"]
            /\ UNCHANGED <<op, url, vol, spawned, logged, manager, returned>>
    /\ UNCHANGED <<callers, procs>>
    /\ UNCHANGED searchVars
    /\ UNCHANGED normVars

\* stop, lines 77-79: child.kill(), a failure is only logged
StopKill(t) ==
    /\ pc[t] = "stop_kill"
    /\ \E ok \in BOOLEAN :
        IF ok
        THEN /\ procs' = [procs EXCEPT ![child[t]] =
                    [@ EXCEPT !.kills = @ + 1,
                              !.status = IF @ = "running" THEN "killed" ELSE @]]
             /\ UNCHANGED logged
        ELSE /\ procs' = [procs EXCEPT ![child[t]] = [@ EXCEPT !.kills = @ + 1]]
             /\ logged' = [logged EXCEPT ![t] = @ \cup {LogKillFailed}]
    /\ pc' = [pc EXCEPT ![t] = "stop_wait"]
    /\ UNCHANGED <<callers, manager, slot, lock, op, url, vol, child, spawned, returned>>
    /\ UNCHANGED searchVars
    /\ UNCHANGED normVars

\* stop, lines 80-82: child.wait() blocks until the process has exited and
\* reaps it; the guard is released at the end of the block
StopWait(t) ==
    /\ pc[t] = "stop_wait"
    /\ ~Running(child[t])
    /\ procs' = [procs EXCEPT ![child[t]] =
                    [@ EXCEPT !.status = "reaped", !.waits = @ + 1]]
    /\ lock' = 0
    /\ AfterStop(t)
    /\ UNCHANGED <<callers, slot>>
    /\ UNCHANGED searchVars
    /\ UNCHANGED normVars

\* the process started by Command::new("mpv") ... .arg(&url).spawn()
NewProc(t) ==
    [url |-> url[t], volume |-> vol[t], status |-> "running", kills |-> 0, waits |-> 0]

\* play, lines 52-62 and 68-70: spawn(); Err is logged and play returns
PlaySpawn(t) ==
    /\ pc[t] = "play_spawn"
    /\ \E ok \in BOOLEAN :
        IF ok
        THEN /\ procs' = Append(procs, NewProc(t))
             /\ spawned' = [spawned EXCEPT ![t] = Len(procs) + 1]
             /\ pc' = [pc EXCEPT ![t] = "play_store"]
             /\ UNCHANGED <<op, url, vol, child, logged, manager, returned>>
        ELSE /\ Return(t)
             /\ returned' = Returned("play", url[t], logged[t] \cup {LogSpawnFailed}, 0)
             /\ UNCHANGED procs
    /\ UNCHANGED <<callers, slot, lock>>
    /\ UNCHANGED searchVars
    /\ UNCHANGED normVars

\* play, lines 63-67: lock, *guard = Some(child); the previous content of the
\* slot is dropped, and dropping a Child neither kills nor reaps it
PlayStore(t) ==
    /\ pc[t] = "play_store"
    /\ lock = 0
    /\ slot' = spawned[t]
    /\ Return(t)
    /\ returned' = Returned("play", url[t], logged[t], spawned[t])
    /\ UNCHANGED <<callers, lock, procs>>
    /\ UNCHANGED searchVars
    /\ UNCHANGED normVars

\* _vol: f32
Levels == {0, 1}

\* set_volume implemented by ending the stream
SetVolume_EndsStream(t, level) ==
    /\ manager = "live"
    /\ t \in callers
    /\ pc[t] = "idle"
    /\ returned' = Returned("set_volume", 0, {}, 0)
    /\ slot' = 0
    /\ UNCHANGED <<callers, manager, lock, procs, pc, op, url, vol, child, spawned,
                   logged>>
    /\ UNCHANGED searchVars
    /\ UNCHANGED normVars

\* set_volume, lines 85-88: the body is empty, the call returns at once
SetVolume(t, level) ==
    /\ manager = "live"
    /\ t \in callers
    /\ pc[t] = "idle"
    /\ returned' = Returned("set_volume", 0, {}, 0)
    /\ UNCHANGED <<callers, manager, slot, lock, procs, pc, op, url, vol, child,
                   spawned, logged>>
    /\ UNCHANGED searchVars
    /\ UNCHANGED normVars

\* the player ends by itself: the stream ends or mpv crashes
ProcExit(p) ==
    /\ p \in Pids
    /\ Running(p)
    /\ procs' = [procs EXCEPT ![p] = [@ EXCEPT !.status = "exited"]]
    /\ UNCHANGED <<callers, manager, slot, lock, pc, op, url, vol, child, spawned,
                   logged, returned>>
    /\ UNCHANGED searchVars
    /\ UNCHANGED normVars

----------------------------------------------------------------------------
(* search_stations *)

\* Option<String>::unwrap_or_default
unwrap_or_default(o) == IF o = None THEN "" ELSE o[1]

\* the conversion with url and url_resolved exchanged
StationFrom_SwappedUrl(api) ==
    [stationuuid |-> unwrap_or_default(api.stationuuid),
     name |-> unwrap_or_default(api.name),
     url |-> unwrap_or_default(api.url_resolved),
     url_resolved |-> unwrap_or_default(api.url),
     homepage |-> unwrap_or_default(api.homepage),
     favicon |-> unwrap_or_default(api.favicon),
     tags |-> unwrap_or_default(api.tags),
     country |-> unwrap_or_default(api.country),
     language |-> unwrap_or_default(api.language)]

\* impl From<ApiStation> for Station
StationFrom(api) ==
    [stationuuid |-> unwrap_or_default(api.stationuuid),
     name |-> unwrap_or_default(api.name),
     url |-> unwrap_or_default(api.url),
     url_resolved |-> unwrap_or_default(api.url_resolved),
     homepage |-> unwrap_or_default(api.homepage),
     favicon |-> unwrap_or_default(api.favicon),
     tags |-> unwrap_or_default(api.tags),
     country |-> unwrap_or_default(api.country),
     language |-> unwrap_or_default(api.language)]

\* the collected list in reverse order
MapStations_Reversed(list) ==
    [i \in 1..Len(list) |-> StationFrom(list[Len(list) + 1 - i])]

\* api_stations.into_iter().map(Station::from).collect()
MapStations(list) == [i \in 1..Len(list) |-> StationFrom(list[i])]

API_SERVERS == <<
    "https://all.api.radio-browser.info",
    "https://de1.api.radio-browser.info",
    "https://fr1.api.radio-browser.info",
    "https://at1.api.radio-browser.info",
    "https://nl1.api.radio-browser.info",
    "https://us1.api.radio-browser.info",
    "https://es1.api.radio-browser.info" >>

Whitespace == {" ", "\t", "\n"}

RECURSIVE TrimStart(_)
TrimStart(s) ==
    IF s # <<>> /\ Head(s) \in Whitespace THEN TrimStart(Tail(s)) ELSE s

RECURSIVE TrimEnd(_)
TrimEnd(s) ==
    IF s # <<>> /\ s[Len(s)] \in Whitespace THEN TrimEnd(SubSeq(s, 1, Len(s) - 1)) ELSE s

\* no trimming at all
Trim_Identity(s) == s

\* str::trim
Trim(s) == TrimEnd(TrimStart(s))

QueryTable == <<
    <<>>,
    <<" ">>,
    <<"\t", " ", "\n">>,
    <<"j","a","z","z">>,
    <<" ","j"," ">>,
    <<"a"," ","b">> >>

QueryIds == 1..Len(QueryTable)

FullRecord(n) ==
    [stationuuid |-> Some(n), name |-> Some("Jazz FM"), url |-> Some("http://a.fm/s"),
     url_resolved |-> Some("http://a.fm/r"), homepage |-> Some("http://a.fm"),
     favicon |-> Some("http://a.fm/i.png"), tags |-> Some("jazz"),
     country |-> Some("AT"), language |-> Some("de")]

\* decoded bodies a mirror may answer with (Vec<ApiStation>)
Bodies == {
    <<>>,
    <<FullRecord("u1")>>,
    <<FullRecord("u2"), [FullRecord("u1") EXCEPT !.favicon = None, !.tags = None]>>,
    <<[FullRecord("u3") EXCEPT !.name = Some(""), !.stationuuid = None], FullRecord("u1"),
      FullRecord("u2")>> }

\* the three ways one mirror can fail: send() Err, error_for_status() Err,
\* json() Err
ErrorKinds == {"connection", "http_status", "json_parse"}

MirrorError(k, i) == [kind |-> k, from |-> API_SERVERS[i]]

Ok(v) == [ok |-> TRUE, val |-> v]
Err(e) == [ok |-> FALSE, err |-> e]
\* the call has not returned
NoResult == [ok |-> FALSE, err |-> MirrorError("none", 1)]

Request(i) ==
    [url |-> <<API_SERVERS[i], "/json/stations/search">>,
     name |-> QueryTable[query], limit |-> "20"]

InitSearchVars ==
    /\ spc = "idle"
    /\ query = 0
    /\ server = 0
    /\ last_error = None
    /\ attempts = <<>>
    /\ result = NoResult

\* search_stations, lines 78-90: the empty-query return, else enter the loop
SearchCall(q) ==
    /\ spc = "idle"
    /\ query' = q
    /\ attempts' = <<>>
    /\ last_error' = None
    /\ IF Trim(QueryTable[q]) = <<>>
       THEN /\ result' = Ok(<<>>)
            /\ spc' = "idle"
            /\ server' = 0
       ELSE /\ result' = NoResult
            /\ spc' = "loop"
            /\ server' = 1
    /\ UNCHANGED audioVars
    /\ UNCHANGED normVars

\* the Err arms trying the same mirror again
SearchMirrorFails_Retry(k) ==
    /\ spc = "loop"
    /\ server <= Len(API_SERVERS)
    /\ attempts' = Append(attempts, [request |-> Request(server), outcome |-> k])
    /\ last_error' = Some(MirrorError(k, server))
    /\ server' = IF Len(attempts) = 0 THEN server ELSE server + 1
    /\ UNCHANGED <<spc, query, result>>
    /\ UNCHANGED audioVars
    /\ UNCHANGED normVars

\* the Err arms keeping the first error instead of the latest
SearchMirrorFails_KeepFirst(k) ==
    /\ spc = "loop"
    /\ server <= Len(API_SERVERS)
    /\ attempts' = Append(attempts, [request |-> Request(server), outcome |-> k])
    /\ last_error' = IF last_error = None THEN Some(MirrorError(k, server)) ELSE last_error
    /\ server' = server + 1
    /\ UNCHANGED <<spc, query, result>>
    /\ UNCHANGED audioVars
    /\ UNCHANGED normVars

\* lines 92-117, one iteration that ends in one of the three Err arms
SearchMirrorFails(k) ==
    /\ spc = "loop"
    /\ server <= Len(API_SERVERS)
    /\ attempts' = Append(attempts, [request |-> Request(server), outcome |-> k])
    /\ last_error' = Some(MirrorError(k, server))
    /\ server' = server + 1
    /\ UNCHANGED <<spc, query, result>>
    /\ UNCHANGED audioVars
    /\ UNCHANGED normVars

\* the Ok arm remembering the list but going on to the next mirror
SearchMirrorAnswers_NoReturn(body) ==
    /\ spc = "loop"
    /\ server <= Len(API_SERVERS)
    /\ attempts' = Append(attempts, [request |-> Request(server), outcome |-> "ok", body |-> body])
    /\ result' = Ok(MapStations(body))
    /\ spc' = IF server = Len(API_SERVERS) THEN "idle" ELSE "loop"
    /\ server' = server + 1
    /\ UNCHANGED <<query, last_error>>
    /\ UNCHANGED audioVars
    /\ UNCHANGED normVars

\* lines 96-102, one iteration whose body decodes: return Ok(...)
SearchMirrorAnswers(body) ==
    /\ spc = "loop"
    /\ server <= Len(API_SERVERS)
    /\ attempts' = Append(attempts, [request |-> Request(server), outcome |-> "ok", body |-> body])
    /\ result' = Ok(MapStations(body))
    /\ spc' = "idle"
    /\ UNCHANGED <<query, server, last_error>>
    /\ UNCHANGED audioVars
    /\ UNCHANGED normVars

\* lines 120-124, after the loop
SearchExhausted ==
    /\ spc = "loop"
    /\ server > Len(API_SERVERS)
    /\ result' = IF last_error = None THEN Ok(<<>>) ELSE Err(last_error[1])
    /\ spc' = "idle"
    /\ UNCHANGED <<query, server, last_error, attempts>>
    /\ UNCHANGED audioVars
    /\ UNCHANGED normVars

----------------------------------------------------------------------------
(* One record from the wire to Station *)

Fields == {"stationuuid", "name", "url", "url_resolved", "homepage", "favicon",
           "tags", "country", "language"}

\* a JSON member is absent, null or a string
WireMissing == [kind |-> "missing"]
WireNull == [kind |-> "null"]
WireString(str) == [kind |-> "string", s |-> str]

SampleValue == FullRecord("u1")

WireVals(f) == {WireMissing, WireNull, WireString(""), WireString(SampleValue[f][1])}

RawRecords ==
    [stationuuid : WireVals("stationuuid"), name : WireVals("name"),
     url : WireVals("url"), url_resolved : WireVals("url_resolved"),
     homepage : WireVals("homepage"), favicon : WireVals("favicon"),
     tags : WireVals("tags"), country : WireVals("country"),
     language : WireVals("language")]

\* #[derive(Deserialize)] struct ApiStation with #[serde(default)] on
\* Option<String> members: an absent or null member becomes None
Deserialize(r) ==
    [f \in Fields |-> IF r[f].kind = "string" THEN Some(r[f].s) ELSE None]

InitNormVars ==
    /\ raw = [f \in Fields |-> WireMissing]
    /\ station = None

\* Station::from applied to the decoded record (api.rs line 101, one element)
Normalize ==
    /\ station = None
    /\ station' = Some(StationFrom(Deserialize(raw)))
    /\ UNCHANGED raw
    /\ UNCHANGED audioVars
    /\ UNCHANGED searchVars

----------------------------------------------------------------------------
(* Specifications *)

\* the AudioManager shared by all threads
Init ==
    /\ callers = Threads
    /\ InitAudio
    /\ InitSearchVars
    /\ InitNormVars

\* the AudioManager used by one thread only
InitSeq ==
    /\ callers = {1}
    /\ InitAudio
    /\ InitSearchVars
    /\ InitNormVars

InitSearch ==
    /\ callers = {}
    /\ InitAudio
    /\ InitSearchVars
    /\ InitNormVars

\* any record a mirror can send, not yet converted
InitNorm ==
    /\ callers = {}
    /\ InitAudio
    /\ InitSearchVars
    /\ raw \in RawRecords
    /\ station = None

Next ==
    \/ \E t \in Threads, u \in UrlIds, v \in Volumes : Play(t, u, v)
    \/ \E t \in Threads : Stop(t)
    \/ \E t \in Threads : Drop(t)
    \/ \E t \in Threads : StopLock(t)
    \/ \E t \in Threads : StopKill(t)
    \/ \E t \in Threads : StopWait(t)
    \/ \E t \in Threads : PlaySpawn(t)
    \/ \E t \in Threads : PlayStore(t)
    \/ \E t \in Threads, l \in Levels : SetVolume(t, l)
    \/ \E p \in 1..MaxProcs : ProcExit(p)

NextSearch ==
    \/ \E q \in QueryIds : SearchCall(q)
    \/ \E k \in ErrorKinds : SearchMirrorFails(k)
    \/ \E b \in Bodies : SearchMirrorAnswers(b)
    \/ SearchExhausted

Spec == Init /\ [][Next]_vars

SpecSeq == InitSeq /\ [][Next]_vars

\* a thread inside play, stop or drop goes on running: each blocking call
\* (lock, kill, wait, spawn) returns once it can.  Nothing makes a caller
\* call, and nothing makes mpv end by itself.
Fairness ==
    \A t \in Threads :
        WF_vars(StopLock(t) \/ StopKill(t) \/ StopWait(t) \/ PlaySpawn(t) \/ PlayStore(t))

SpecSeqFair == InitSeq /\ [][Next]_vars /\ Fairness

SpecSearch == InitSearch /\ [][NextSearch]_vars

NextNorm == Normalize

SpecNorm == InitNorm /\ [][NextNorm]_vars

----------------------------------------------------------------------------
(* Properties *)

NoCallInProgress == \A t \in Threads : pc[t] = "idle"

\* C1: at every moment at most one player process spawned by the
\* AudioManager is alive, under any interleaving of play and stop.
C1_AtMostOneLive == Cardinality(LivePids) <= 1

\* C2: once the AudioManager has been dropped, no process it ever spawned
\* is still running.
C2_NoOrphanAfterDrop == manager = "dropped" => LivePids = {}

\* C3: with one caller, at most one process is alive at any time, every
\* process but the newest was signaled and reaped before the newest was
\* spawned, and after a play that spawned the slot holds that play's process,
\* started for that play's URL, the only one not reaped, and running unless it
\* ended by itself.
C3_SequentialPlayReplaces ==
    /\ Cardinality(LivePids) <= 1
    /\ \A p \in Pids : p < Len(procs) =>
          /\ procs[p].status = "reaped"
          /\ procs[p].kills = 1
          /\ procs[p].waits = 1
    /\ (NoCallInProgress /\ returned.op = "play" /\ returned.spawned # 0) =>
          /\ slot = returned.spawned
          /\ slot = Len(procs)
          /\ procs[slot].url = returned.url
          /\ procs[slot].kills = 0
          /\ procs[slot].status \in {"running", "exited"}

\* two plays with distinct valid URLs have returned: the second URL's
\* process runs, the first one is reaped
C3_Witness ==
    /\ NoCallInProgress
    /\ returned.op = "play"
    /\ Len(procs) = 2
    /\ slot = 2
    /\ Running(2)
    /\ procs[1].status = "reaped"
    /\ procs[1].url # procs[2].url

C4_BadFormatOrScheme(u) ==
    LET parsed == UrlParse(UrlTable[u])
    IN  \/ ~parsed.ok
        \/ parsed.ok /\ parsed.scheme # s_http /\ parsed.scheme # s_https

C4_Error(u) == IF UrlParse(UrlTable[u]).ok THEN ErrScheme ELSE ErrFormat

\* C4 as stated: a play whose URL does not parse or has a scheme other than
\* http/https spawns no process and returns the validation error to the caller.
C4_ReturnsSchemeError ==
    (returned.op = "play" /\ C4_BadFormatOrScheme(returned.url)) =>
        /\ returned.spawned = 0
        /\ returned.value = C4_Error(returned.url)

\* C4 amended: such a play spawns no process and returns () to the caller;
\* the validation error is only logged.
C4_SchemeErrorLogged ==
    (returned.op = "play" /\ C4_BadFormatOrScheme(returned.url)) =>
        /\ returned.spawned = 0
        /\ returned.value = Unit
        /\ returned.logged = {LogInvalidUrl(C4_Error(returned.url))}

\* a play of ftp://a.fm has returned while a stream is playing
C4_Witness ==
    /\ returned.op = "play"
    /\ UrlTable[returned.url] = <<"f","t","p">> \o s_sep \o s_a_fm
    /\ slot # 0

C5_PrivateHost(u) ==
    LET parsed == UrlParse(UrlTable[u])
    IN  /\ parsed.ok
        /\ parsed.scheme \in {s_http, s_https}
        /\ parsed.host # None
        /\ LET h == parsed.host[1]
           IN  \/ h = <<"l","o","c","a","l","h","o","s","t">>
               \/ h = <<"1","2","7",".","0",".","0",".","1">>
               \/ StartsWith(h, <<"1","9","2",".","1","6","8",".">>)
               \/ StartsWith(h, <<"1","0",".">>)
               \/ StartsWith(h, <<"1","7","2",".","1","6",".">>)

\* C5 as stated: a play of an http/https URL with a blocklisted host spawns
\* no process and returns the private-host validation error to the caller.
C5_ReturnsPrivateHostError ==
    (returned.op = "play" /\ C5_PrivateHost(returned.url)) =>
        /\ returned.spawned = 0
        /\ returned.value = ErrPrivate

\* C5 amended: such a play spawns no process and returns () to the caller;
\* the private-host validation error is only logged.
C5_PrivateHostErrorLogged ==
    (returned.op = "play" /\ C5_PrivateHost(returned.url)) =>
        /\ returned.spawned = 0
        /\ returned.value = Unit
        /\ returned.logged = {LogInvalidUrl(ErrPrivate)}

\* a play of http://10.0.0.1/s has returned while a stream is playing
C5_Witness ==
    /\ returned.op = "play"
    /\ UrlTable[returned.url] = s_http \o s_sep \o <<"1","0",".","0",".","0",".","1","/","s">>
    /\ slot # 0

\* C6: when search returns the list of mirror k, the first mirror that
\* answered with a decodable body, the requests sent are exactly those to
\* mirrors 1..k in list order, and the list is that mirror's.
C6_FirstSuccessShortCircuits ==
    \A k \in 1..Len(attempts) :
        attempts[k].outcome = "ok" =>
            /\ k = Len(attempts)
            /\ spc = "idle"
            /\ \A i \in 1..k : attempts[i].request.url[1] = API_SERVERS[i]
            /\ \A i \in 1..(k - 1) : attempts[i].outcome # "ok"
            /\ result.ok
            /\ Len(result.val) = Len(attempts[k].body)
            /\ \A j \in 1..Len(result.val) :
                  attempts[k].body[j].url # None =>
                      result.val[j].url = attempts[k].body[j].url[1]

\* mirrors 1 and 2 failed, mirror 3 answered with two records
C6_Witness ==
    /\ spc = "idle"
    /\ Len(attempts) = 3
    /\ attempts[3].outcome = "ok"
    /\ result.ok
    /\ Len(result.val) = 2

C7_AllFailed ==
    /\ spc = "idle"
    /\ Len(attempts) = Len(API_SERVERS)
    /\ \A i \in 1..Len(attempts) : attempts[i].outcome # "ok"

\* C7: when every mirror failed, search returns an error, the one of the
\* last mirror attempted, and never a success value.
C7_LastErrorWins ==
    C7_AllFailed =>
        /\ ~result.ok
        /\ result.err.kind = attempts[Len(attempts)].outcome
        /\ result.err.from = API_SERVERS[Len(API_SERVERS)]

\* all seven mirrors failed, the first and the last in different ways
C7_Witness ==
    /\ C7_AllFailed
    /\ attempts[1].outcome = "connection"
    /\ attempts[Len(attempts)].outcome = "json_parse"
    /\ ~result.ok

C8_Blank(q) == \A i \in 1..Len(q) : q[i] \in {" ", "\t", "\n"}

\* C8: a search with an empty or whitespace-only query returns Ok(empty
\* list) at once and sends no request.
C8_BlankQueryNoRequest ==
    (query # 0 /\ C8_Blank(QueryTable[query])) =>
        /\ spc = "idle"
        /\ attempts = <<>>
        /\ result = Ok(<<>>)

\* a search with a query of three whitespace characters has returned
C8_Witness ==
    /\ query # 0
    /\ Len(QueryTable[query]) = 3
    /\ C8_Blank(QueryTable[query])
    /\ result = Ok(<<>>)

StopPcs == {"stop_lock", "stop_kill", "stop_wait"}

\* C9: in the step in which stop returns, the slot is empty, whatever it
\* held before and whether or not kill failed.
C9_StopLeavesIdle ==
    [][\A t \in Threads : (pc[t] \in StopPcs /\ pc'[t] \notin StopPcs) => (slot' = 0 /\ lock' = 0)]_vars

\* a stop whose kill failed has returned, the slot is empty
C9_Witness ==
    /\ returned.op = "stop"
    /\ LogKillFailed \in returned.logged
    /\ slot = 0
    /\ NoCallInProgress

\* C10: with one caller, after a play that passed validation and failed to
\* spawn has returned, the slot is empty, no player process is running and
\* the caller got ().
C10_SpawnFailureLeavesIdle ==
    (NoCallInProgress /\ returned.op = "play" /\ LogSpawnFailed \in returned.logged) =>
        /\ slot = 0
        /\ LivePids = {}
        /\ returned.spawned = 0
        /\ returned.value = Unit

\* a play that replaced a playing stream failed to spawn
C10_Witness ==
    /\ NoCallInProgress
    /\ returned.op = "play"
    /\ LogSpawnFailed \in returned.logged
    /\ Len(procs) = 1
    /\ procs[1].status = "reaped"
    /\ slot = 0

\* C11: the Station made of a wire record has "" in the fields that were
\* null or missing, the wire string unchanged in every other field, and all
\* nine fields.
C11_NormalizationDefaults ==
    station # None =>
        /\ DOMAIN station[1] = Fields
        /\ \A f \in Fields :
              /\ raw[f].kind \in {"missing", "null"} => station[1][f] = ""
              /\ raw[f].kind = "string" => station[1][f] = raw[f].s

\* a record without favicon, with a null tags and with a name was converted
C11_Witness ==
    /\ station # None
    /\ raw.favicon.kind = "missing"
    /\ raw.tags.kind = "null"
    /\ raw.name.kind = "string"
    /\ station[1].name = "Jazz FM"
    /\ station[1].favicon = ""
    /\ station[1].tags = ""

\* C12: the list search returns has the length and the order of the list of
\* the mirror that answered: element i is the Station of the mirror's
\* record i.
C12_OrderPreserved ==
    (attempts # <<>> /\ attempts[Len(attempts)].outcome = "ok") =>
        LET body == attempts[Len(attempts)].body
        IN  /\ result.ok
            /\ Len(result.val) = Len(body)
            /\ \A i \in 1..Len(body) :
                  /\ result.val[i].stationuuid = (IF body[i].stationuuid = None THEN "" ELSE body[i].stationuuid[1])
                  /\ result.val[i].name = (IF body[i].name = None THEN "" ELSE body[i].name[1])
                  /\ result.val[i].tags = (IF body[i].tags = None THEN "" ELSE body[i].tags[1])

\* the second mirror answered with three records, handed back in its order
C12_Witness ==
    /\ Len(attempts) = 2
    /\ attempts[2].outcome = "ok"
    /\ result.ok
    /\ Len(result.val) = 3
    /\ result.val[1].stationuuid = ""
    /\ result.val[2].stationuuid = "u1"
    /\ result.val[3].stationuuid = "u2"

\* C13: a stop called while the slot is empty signals and reaps nothing,
\* leaves the slot empty and the lock free, logs nothing and returns.
C13_StopWhenIdleIsNoOp ==
    [][\A t \in Threads :
        /\ (pc[t] = "idle" /\ op'[t] = "stop") => UNCHANGED <<slot, lock, procs>>
        /\ (op[t] = "stop" /\ pc[t] = "stop_lock" /\ slot = 0 /\ pc'[t] # "stop_lock") =>
              /\ pc'[t] = "idle"
              /\ returned'.op = "stop"
              /\ returned'.logged = {}
              /\ slot' = 0
              /\ lock' = 0
              /\ procs' = procs]_vars

\* a stop has returned and no process was ever signaled or reaped
C13_Witness ==
    /\ returned.op = "stop"
    /\ returned.logged = {}
    /\ slot = 0
    /\ lock = 0
    /\ \A p \in Pids : procs[p].kills = 0 /\ procs[p].waits = 0

\* C14: a set_volume call changes neither the slot nor any process, and
\* neither spawns nor terminates one, in any state.
C14_SetVolumeNoEffect ==
    [][(returned'.op = "set_volume" /\ returned' # returned) =>
            UNCHANGED <<slot, lock, procs, manager, pc>>]_vars

\* set_volume has returned while a stream is playing
C14_Witness ==
    /\ returned.op = "set_volume"
    /\ slot # 0
    /\ Running(slot)

C15_Invalid(u) == C4_BadFormatOrScheme(u) \/ C5_PrivateHost(u)

\* C15: a play whose URL fails validation returns without touching the slot,
\* the lock or any process: stop is not called and a playing stream goes on.
C15_InvalidPlayNoAction ==
    [][(returned' # returned /\ returned'.op = "play" /\ C15_Invalid(returned'.url)) =>
            UNCHANGED <<slot, lock, procs, manager, pc, child>>]_vars

\* a play with a URL that fails validation has returned, the stream that was
\* playing is still in the slot, running and never signaled
C15_Witness ==
    /\ returned.op = "play"
    /\ C15_Invalid(returned.url)
    /\ returned.spawned = 0
    /\ slot # 0
    /\ Running(slot)
    /\ procs[slot].kills = 0

NoPlayInProgress == \A t \in Threads : op[t] # "play"

\* C16: whenever no play call is in progress, every live process is the one
\* in the slot, or the one a stop in progress has taken out of the slot and
\* is terminating: no live process is without a handle.
C16_NoLeakedHandle ==
    NoPlayInProgress =>
        \A p \in LivePids : p = slot \/ \E t \in Threads : child[t] = p

\* C17: no process is signaled more than once or reaped more than once, and
\* two calls never hold the same process taken out of the slot.
C17_NoDoubleTerminate ==
    /\ \A p \in Pids : procs[p].kills <= 1 /\ procs[p].waits <= 1
    /\ \A p \in Pids : procs[p].waits = 1 => (procs[p].kills = 1 /\ slot # p)
    /\ \A t1, t2 \in Threads :
          (t1 # t2 /\ child[t1] # 0) => child[t1] # child[t2]
    /\ \A t \in Threads : child[t] # 0 => (slot # child[t] /\ lock = t)

\* one stop has signaled the process it took while another caller's stop or
\* play waits for the lock
C17_Witness ==
    \E t1, t2 \in Threads :
        /\ t1 # t2
        /\ pc[t1] = "stop_wait"
        /\ procs[child[t1]].kills = 1
        /\ pc[t2] = "stop_lock"

C18_Order ==
    /\ Len(attempts) <= 7
    /\ \A i \in 1..Len(attempts) :
          /\ attempts[i].request.url = <<API_SERVERS[i], "/json/stations/search">>
          /\ attempts[i].request.name = QueryTable[query]
          /\ attempts[i].request.limit = "20"
    /\ \A i \in 1..(Len(attempts) - 1) : attempts[i].outcome \in ErrorKinds

\* C18: the requests of one search go to the mirrors in list order, one
\* each, at most seven; after a failure of any kind the loop is at the next
\* mirror, and the call ends only on an answer or after the seventh mirror.
C18_SequentialFallback ==
    /\ C18_Order
    /\ spc = "loop" =>
          /\ server = Len(attempts) + 1
          /\ \A i \in 1..Len(attempts) : attempts[i].outcome \in ErrorKinds
    /\ (spc = "idle" /\ attempts # <<>>) =>
          \/ attempts[Len(attempts)].outcome = "ok"
          \/ Len(attempts) = 7

\* seven requests were sent and failed, in all three ways
C18_Witness ==
    /\ spc = "idle"
    /\ Len(attempts) = 7
    /\ {attempts[i].outcome : i \in 1..7} = ErrorKinds
    /\ attempts[7].request.url[1] = "https://es1.api.radio-browser.info"

\* C19 as stated: a handle in the slot refers to a process that is running.
C19_HandleIsRunning == slot # 0 => Running(slot)

\* C19 amended: a handle in the slot refers to one process the AudioManager
\* spawned, never signaled and not reaped; it is running unless it ended by
\* itself.
C19_HandleIsUnreaped ==
    slot # 0 =>
        /\ slot \in Pids
        /\ procs[slot].status # "reaped"
        /\ procs[slot].kills = 0
        /\ procs[slot].waits = 0
        /\ procs[slot].status \in {"running", "exited"}

\* the player in the slot has ended by itself and is still in the slot
C19_Witness ==
    /\ slot # 0
    /\ procs[slot].status = "exited"
    /\ NoCallInProgress

\* C20: every stop that has begun returns and has released the lock, also
\* after a kill that failed.
C20_StopReturns ==
    \A t \in Threads : (pc[t] \in StopPcs) ~> (pc[t] \notin StopPcs /\ lock # t)

====
